---- MODULE Spec2Model ----
(***************************************************************************)
(* A model of the chapter-range resolvers of PDF-Chapter-Extractor         *)
(* (src/smart_splitter.py).  Each resolver is a function of a document and *)
(* of what its environment hands it; a specification draws those inputs    *)
(* from bounded sets and one action applies the resolver to them.  Text    *)
(* (titles) is a tuple of one-character strings, so that strip, split,     *)
(* upper and the chapter regular expression are computed, not assumed.     *)
(***************************************************************************)
EXTENDS Integers, Sequences, FiniteSets, TLC

VARIABLES
    op,           \* which function has been called: "idle" before the call
    toc,          \* doc.get_toc(simple=False): a list of [level, title, page]
    page_count,   \* doc.page_count
    api_key,      \* os.getenv("GOOGLE_API_KEY"); "" when it is not set
    configure_error, \* whether genai.configure raises
    page_text,    \* "ok", or "raise" when page.get_text raises
    response,     \* what model.generate_content answered, once it was called
    calls,        \* the collaborators called so far, in order
    typed,        \* the entries the user typed, each with what it was meant as
    range_string, \* the text handed to parse_manual_ranges
    chapter_list, \* the chapters handed to extract_chapters_to_pdf
    offset,       \* the page offset handed to it
    raised,       \* the exception a collaborator raised during it, if any
    copied,       \* the insert_pdf calls made, in order
    files,        \* the files of output_dir, each with the pages saved in it
    self_doc,     \* the window's self.doc
    closed_docs,  \* the documents doc.close() was called on
    threads,      \* the threads the window started, in order
    after,        \* the calls handed to root.after that have not run yet
    extract_btn,  \* the state of the Extract Chapters button
    tree,         \* the rows of chapter_tree, in the order shown
    self_chapters, \* the window's self.chapters: the list last displayed
    cli_pc,       \* where the command-line script is
    source_method, \* its source_method
    confirmed_chapters, \* its confirmed_chapters: "None", or the source of the list
    session,      \* the calls the script made so far, in order
    ret,          \* what the call produced: [kind, value]
    log           \* the levels and messages handed to logger, in order

aiVars == <<api_key, configure_error, page_text, response, calls>>
manualVars == <<typed, range_string>>
extractVars == <<chapter_list, offset, raised, copied, files>>
guiVars == <<self_doc, closed_docs, threads, after, extract_btn, tree, self_chapters>>
cliVars == <<cli_pc, source_method, confirmed_chapters, session>>
vars == <<op, toc, page_count, aiVars, manualVars, extractVars, guiVars, cliVars,
          ret, log>>

\* ------------------------------------------------------------------ bounds
MaxToc == 3       \* longest outline drawn
MaxPage == 3      \* largest page number drawn (outline pages, page counts)
MaxItems == 2     \* longest JSON list the model answers with
MaxAiPage == 2    \* largest page number in a model answer and its document
MaxEntries == 2   \* most entries typed into the manual range string
MaxManualPage == 2 \* largest page count of a document given manual ranges
MaxChapters == 2  \* longest chapter list handed to the extractor
MaxExtractPage == 2 \* largest page count of a document handed to the extractor
MaxOffset == 2    \* largest page offset drawn
MaxDocs == 2      \* most documents the window opens
MaxThreads == 2   \* most threads the window starts
MaxRows == 2      \* the chapters a resolver returns to the window
MaxPrompts == 4   \* most input() calls of a command-line run

\* ------------------------------------------------------------ return values
Pending == [kind |-> "pending", value |-> <<>>]
NoneValue == [kind |-> "None", value |-> <<>>]
Returned(list) == [kind |-> "list", value |-> list]
Raised == [kind |-> "raise", value |-> <<>>]
TrueValue == [kind |-> "True", value |-> <<>>]
FalseValue == [kind |-> "False", value |-> <<>>]

Log(level, what) == [level |-> level, what |-> what]

\* the response variable before model.generate_content has answered
NoResponse == [kind |-> "none", finish_reason |-> "", text |-> <<>>]

\* ------------------------------------------------------------------- text
LowerChars == <<"a","b","c","d","e","f","g","h","i","j","k","l","m",
                "n","o","p","q","r","s","t","u","v","w","x","y","z">>
UpperChars == <<"A","B","C","D","E","F","G","H","I","J","K","L","M",
                "N","O","P","Q","R","S","T","U","V","W","X","Y","Z">>
Digits == {"0","1","2","3","4","5","6","7","8","9"}
Whitespace == {" ", "\t", "\n"}

\* str.upper and the case folding of re.IGNORECASE, one character at a time
UpperChar(c) ==
    IF \E i \in 1..26 : LowerChars[i] = c
    THEN UpperChars[CHOOSE i \in 1..26 : LowerChars[i] = c]
    ELSE c

LowerChar(c) ==
    IF \E i \in 1..26 : UpperChars[i] = c
    THEN LowerChars[CHOOSE i \in 1..26 : UpperChars[i] = c]
    ELSE c

upper(s) == [i \in 1..Len(s) |-> UpperChar(s[i])]

\* str.strip(): drop the leading and the trailing whitespace
strip(s) ==
    LET keep == {i \in 1..Len(s) : s[i] \notin Whitespace}
    IN  IF keep = {} THEN <<>>
        ELSE LET lo == CHOOSE i \in keep : \A j \in keep : i <= j
                 hi == CHOOSE i \in keep : \A j \in keep : j <= i
             IN  SubSeq(s, lo, hi)

\* len(s.split()): the number of maximal runs of non-whitespace characters
SplitCount(s) ==
    Cardinality({i \in 1..Len(s) :
        /\ s[i] \notin Whitespace
        /\ (i = 1 \/ s[i-1] \in Whitespace)})

\* whether s begins with the keyword kw, letters compared without case
StartsWithNoCase(s, kw) ==
    /\ Len(s) >= Len(kw)
    /\ \A i \in 1..Len(kw) : LowerChar(s[i]) = kw[i]

KwChapter == <<"c","h","a","p","t","e","r">>
KwPart == <<"p","a","r","t">>
KwSection == <<"s","e","c","t","i","o","n">>
KwIntroduction == <<"i","n","t","r","o","d","u","c","t","i","o","n">>
KwConclusion == <<"c","o","n","c","l","u","s","i","o","n">>
KwAppendix == <<"a","p","p","e","n","d","i","x">>
KwForeword == <<"f","o","r","e","w","o","r","d">>
KwPreface == <<"p","r","e","f","a","c","e">>

NumberedKeywords == {KwChapter, KwPart, KwSection}
PlainKeywords == {KwIntroduction, KwConclusion, KwAppendix, KwForeword, KwPreface}
RomanChars == {"I","V","X","L","C","D","M"}

\* ^(chapter|part|section)\s+(\d+|[IVXLCDM]+) : after the keyword one or more
\* whitespace characters, then a digit or (case folded) a Roman numeral letter
NumberedAt(s, n) ==
    \E k \in (n+2)..Len(s) :
        /\ \A j \in (n+1)..(k-1) : s[j] \in Whitespace
        /\ s[k] \in Digits \/ UpperChar(s[k]) \in RomanChars

\* chapter_pattern.match(s), re.IGNORECASE
chapter_pattern(s) ==
    \/ \E kw \in NumberedKeywords :
          StartsWithNoCase(s, kw) /\ NumberedAt(s, Len(kw))
    \/ \E kw \in PlainKeywords : StartsWithNoCase(s, kw)

\* match or (len(title.split()) < 5 and title.strip() == title.upper())
is_potential(title) ==
    \/ chapter_pattern(strip(title))
    \/ SplitCount(title) < 5 /\ strip(title) = upper(title)

DigitChars == <<"0","1","2","3","4","5","6","7","8","9">>
DigitValue(c) == (CHOOSE i \in 1..10 : DigitChars[i] = c) - 1

RECURSIVE DecimalValue(_)
DecimalValue(digits) ==
    IF digits = <<>> THEN 0
    ELSE DecimalValue(SubSeq(digits, 1, Len(digits) - 1)) * 10
         + DigitValue(digits[Len(digits)])

IntOk(v) == [ok |-> "ok", v |-> v]
IntError == [ok |-> "error", v |-> 0]          \* ValueError or TypeError
IntOverflow == [ok |-> "overflow", v |-> 0]    \* OverflowError

\* int(s) of a string: whitespace around is ignored, one sign is allowed,
\* and what remains must be one or more decimal digits
int_of_str(s) ==
    LET t == strip(s)
        signed == t # <<>> /\ t[1] \in {"+", "-"}
        digits == IF signed THEN Tail(t) ELSE t
    IN  IF digits # <<>> /\ \A i \in 1..Len(digits) : digits[i] \in Digits
        THEN IntOk(IF signed /\ t[1] = "-"
                   THEN 0 - DecimalValue(digits) ELSE DecimalValue(digits))
        ELSE IntError

RECURSIVE NatChars(_)
NatChars(n) ==
    IF n < 10 THEN <<DigitChars[n + 1]>>
    ELSE NatChars(n \div 10) \o <<DigitChars[(n % 10) + 1]>>

\* str(n), as an f-string formats an int
str_int(n) == IF n < 0 THEN <<"-">> \o NatChars(0 - n) ELSE NatChars(n)

\* ------------------------------------------------ get_chapter_ranges_from_toc
\* {"title": title.strip(), "page": page_num, "level": level}
Chapter(item) == [title |-> strip(item.title), page |-> item.page, level |-> item.level]

RECURSIVE CollectByNonNegative(_, _)
\* CollectBy with the page test written page_num >= 0
CollectByNonNegative(items, filtered) ==
    IF items = <<>> THEN <<>>
    ELSE LET item == Head(items)
             rest == CollectByNonNegative(Tail(items), filtered)
         IN  IF /\ item.level = 1
                /\ item.page >= 0
                /\ (filtered => is_potential(item.title))
             THEN <<Chapter(item)>> \o rest
             ELSE rest

RECURSIVE CollectBy(_, _)
\* the loops at lines 56-63 and 70-73: the level-1 entries with page > 0,
\* in outline order, filtered by is_potential when filtered is TRUE
CollectBy(items, filtered) ==
    IF items = <<>> THEN <<>>
    ELSE LET item == Head(items)
             rest == CollectBy(Tail(items), filtered)
         IN  IF /\ item.level = 1
                /\ item.page > 0
                /\ (filtered => is_potential(item.title))
             THEN <<Chapter(item)>> \o rest
             ELSE rest

\* potential_chapters with the fallback taken whatever the filter kept
potential_chapters_unfiltered(items) == CollectBy(items, FALSE)

\* potential_chapters when the sort is reached: the filtered entries, or all
\* level-1 entries with page > 0 when the filter kept none
potential_chapters(items) ==
    LET matching == CollectBy(items, TRUE)
    IN  IF matching # <<>> THEN matching ELSE CollectBy(items, FALSE)

\* InsertByPage as an unstable sort would do it: x goes before its equals
InsertByPageUnstable(sorted, x) ==
    LET k == Cardinality({i \in 1..Len(sorted) : sorted[i].page < x.page})
    IN  SubSeq(sorted, 1, k) \o <<x>> \o SubSeq(sorted, k + 1, Len(sorted))

\* one step of a stable sort: x goes after every element whose page is <= its own
InsertByPage(sorted, x) ==
    LET k == Cardinality({i \in 1..Len(sorted) : sorted[i].page <= x.page})
    IN  SubSeq(sorted, 1, k) \o <<x>> \o SubSeq(sorted, k + 1, Len(sorted))

RECURSIVE SortByPage(_)
\* potential_chapters.sort(key=lambda x: x["page"]); list.sort is stable
SortByPage(chapters) ==
    IF chapters = <<>> THEN <<>>
    ELSE InsertByPage(SortByPage(SubSeq(chapters, 1, Len(chapters) - 1)),
                      chapters[Len(chapters)])

\* FilterDuplicates without the test of line 87: every chapter is kept
FilterDuplicatesKeepAll(chapters, last_page) == chapters

RECURSIVE FilterDuplicates(_, _)
\* unique_chapters: a chapter is kept unless its page is last_page
FilterDuplicates(chapters, last_page) ==
    IF chapters = <<>> THEN <<>>
    ELSE LET chap == Head(chapters)
         IN  IF chap.page # last_page
             THEN <<chap>> \o FilterDuplicates(Tail(chapters), chap.page)
             ELSE FilterDuplicates(Tail(chapters), last_page)

RECURSIVE DuplicateNotes(_, _)
\* the INFO note logged for each chapter the duplicate filter drops
DuplicateNotes(chapters, last_page) ==
    IF chapters = <<>> THEN <<>>
    ELSE LET chap == Head(chapters)
         IN  IF chap.page # last_page
             THEN DuplicateNotes(Tail(chapters), chap.page)
             ELSE <<Log("INFO", "duplicate_toc_entry")>>
                  \o DuplicateNotes(Tail(chapters), last_page)

unique_chapters(items) == FilterDuplicates(SortByPage(potential_chapters(items)), -1)

\* EndPage with the "- 1" forgotten: a chapter ends where the next one starts
EndPageNextStart(unique, i, total_pages) ==
    IF i + 1 <= Len(unique)
    THEN IF unique[i+1].page > unique[i].page
         THEN unique[i+1].page
         ELSE unique[i].page
    ELSE total_pages

\* end_page of unique[i]: total_pages for the last one, else the next start - 1
\* when the next start is greater, else start_page
EndPage(unique, i, total_pages) ==
    IF i + 1 <= Len(unique)
    THEN IF unique[i+1].page > unique[i].page
         THEN unique[i+1].page - 1
         ELSE unique[i].page
    ELSE total_pages

RECURSIVE CalculateRangesStrict(_, _, _, _)
\* CalculateRanges with the test of line 110 written <, so that a chapter of
\* one page is skipped
CalculateRangesStrict(unique, i, chapter_counter, total_pages) ==
    IF i > Len(unique) THEN <<>>
    ELSE LET start_page == unique[i].page
             end_page == EndPage(unique, i, total_pages)
         IN  IF start_page < end_page
             THEN <<<<chapter_counter, unique[i].title, start_page, end_page>>>>
                  \o CalculateRangesStrict(unique, i + 1, chapter_counter + 1, total_pages)
             ELSE CalculateRangesStrict(unique, i + 1, chapter_counter, total_pages)

RECURSIVE CalculateRanges(_, _, _, _)
\* the loop at lines 98-116 from index i on, with chapter_counter as it stands
CalculateRanges(unique, i, chapter_counter, total_pages) ==
    IF i > Len(unique) THEN <<>>
    ELSE LET start_page == unique[i].page
             end_page == EndPage(unique, i, total_pages)
         IN  IF start_page <= end_page
             THEN <<<<chapter_counter, unique[i].title, start_page, end_page>>>>
                  \o CalculateRanges(unique, i + 1, chapter_counter + 1, total_pages)
             ELSE CalculateRanges(unique, i + 1, chapter_counter, total_pages)

RECURSIVE RangeWarnings(_, _, _)
\* what that loop logs: the defensive adjustment and the skipped chapter
RangeWarnings(unique, i, total_pages) ==
    IF i > Len(unique) THEN <<>>
    ELSE (IF i + 1 <= Len(unique) /\ ~(unique[i+1].page > unique[i].page)
          THEN <<Log("WARNING", "adjusting_range")>> ELSE <<>>)
         \o (IF unique[i].page <= EndPage(unique, i, total_pages)
             THEN <<>> ELSE <<Log("WARNING", "skipping_chapter")>>)
         \o RangeWarnings(unique, i + 1, total_pages)

\* the list the function returns
get_chapter_ranges_from_toc(items, total_pages) ==
    LET potential == potential_chapters(items)
    IN  IF potential = <<>> THEN <<>>
        ELSE CalculateRanges(FilterDuplicates(SortByPage(potential), -1),
                             1, 1, total_pages)

\* what the function logs
toc_log(items, total_pages) ==
    LET potential == potential_chapters(items)
        sorted == SortByPage(potential)
    IN  (IF CollectBy(items, TRUE) = <<>>
         THEN <<Log("INFO", "no_reliable_level1")>> ELSE <<>>)
        \o (IF potential = <<>> THEN <<>>
            ELSE DuplicateNotes(sorted, -1)
                 \o RangeWarnings(FilterDuplicates(sorted, -1), 1, total_pages))

\* ------------------------------------------------------------ outlines drawn
\* Titles the regular expression or the upper-case heuristic accepts, and
\* titles neither accepts; the entry at position i of an outline takes the
\* i-th of its kind, so the entries of an outline are told apart by title.
ChapterLikeTitles == <<
    <<"C","h","a","p","t","e","r"," ","1">>,
    <<"S","U","M","M","A","R","Y">>,
    <<" ","a","p","p","e","n","d","i","x"," ","A"," ">>,
    <<"P","A","R","T"," "," ","i","v">>,
    <<"F","o","r","e","w","o","r","d","s">> >>

OtherTitles == <<
    <<"N","o","t","e","s">>,
    <<"C","h","a","p","t","e","r","s"," ","1">>,
    <<" ","I","N","D","E","X">>,
    <<"A"," ","B"," ","C"," ","D"," ","E">>,
    <<"P","a","r","t"," ","t","w","o">> >>

TitleAt(kind, i) ==
    IF kind = "chapter_like"
    THEN ChapterLikeTitles[((i - 1) % Len(ChapterLikeTitles)) + 1]
    ELSE OtherTitles[((i - 1) % Len(OtherTitles)) + 1]

\* level-1 entries of both kinds, and level-2 entries with a chapter-like title
EntryShapes ==
    [level : {1}, kind : {"chapter_like", "other"}, page : 0..MaxPage]
    \cup [level : {2}, kind : {"chapter_like"}, page : 0..MaxPage]

Outline(shapes) ==
    [i \in 1..Len(shapes) |->
        [level |-> shapes[i].level,
         title |-> TitleAt(shapes[i].kind, i),
         page |-> shapes[i].page]]

Outlines == {Outline(shapes) : shapes \in UNION {[1..n -> EntryShapes] : n \in 0..MaxToc}}

\* the page counts drawn: no page, one page, and the two largest page numbers
\* an outline entry may carry
TocPageCounts == {0, 1, MaxPage - 1, MaxPage}

\* the outline of the worked example: pages 1, 1, 10, 25 in a 30-page document
ExampleOutline ==
    Outline(<<[level |-> 1, kind |-> "chapter_like", page |-> 1],
              [level |-> 1, kind |-> "chapter_like", page |-> 1],
              [level |-> 1, kind |-> "chapter_like", page |-> 10],
              [level |-> 1, kind |-> "chapter_like", page |-> 25]>>)

ExampleDoc == [toc |-> ExampleOutline, page_count |-> 30]

\* the variables of a resolver that a specification does not call
AiUnused ==
    /\ api_key = ""
    /\ configure_error = FALSE
    /\ page_text = "ok"
    /\ response = NoResponse
    /\ calls = <<>>

ManualUnused == typed = <<>> /\ range_string = <<>>

\* no exception raised
NoException == [call |-> "none", chapter |-> 0]

ExtractUnused ==
    /\ chapter_list = <<>>
    /\ offset = 0
    /\ raised = NoException
    /\ copied = <<>>
    /\ files = {}

GuiUnused ==
    /\ self_doc = 0
    /\ closed_docs = {}
    /\ threads = <<>>
    /\ after = <<>>
    /\ extract_btn = "disabled"
    /\ tree = <<>>
    /\ self_chapters = <<>>

CliUnused ==
    /\ cli_pc = "start"
    /\ source_method = "None"
    /\ confirmed_chapters = "None"
    /\ session = <<>>

\* ---------------------------------------------------------- the TOC resolver
InitToc ==
    /\ op = "idle"
    /\ \/ toc \in Outlines /\ page_count \in TocPageCounts
       \/ toc = ExampleDoc.toc /\ page_count = ExampleDoc.page_count
    /\ AiUnused
    /\ ManualUnused
    /\ ExtractUnused
    /\ GuiUnused
    /\ CliUnused
    /\ ret = Pending
    /\ log = <<>>

CallToc ==
    /\ op = "idle"
    /\ op' = "toc"
    /\ ret' = Returned(get_chapter_ranges_from_toc(toc, page_count))
    /\ log' = toc_log(toc, page_count)
    /\ UNCHANGED <<toc, page_count, aiVars, manualVars, extractVars, guiVars, cliVars>>

NextToc == CallToc

SpecToc == InitToc /\ [][NextToc]_vars

\* -------------------------------------------------------------- JSON values
\* A value of the parsed answer: t is its JSON type ("missing" for a key the
\* object does not have), v its number, s its characters.  A "float" v stands
\* for v + 0.5, and "inf" for a number too large for a float (1e999).
JV(t, v, s) == [t |-> t, v |-> v, s |-> s]
JInt(k) == JV("int", k, <<>>)
JFloat(k) == JV("float", k, <<>>)
JStr(chars) == JV("str", 0, chars)
JBool(k) == JV("bool", k, <<>>)
JNull == JV("null", 0, <<>>)
JInf == JV("inf", 0, <<>>)
JMissing == JV("missing", 0, <<>>)

\* int(item.get(key, 0))
IntOf(value) ==
    CASE value.t = "missing" -> IntOk(0)
      [] value.t \in {"int", "float", "bool"} -> IntOk(value.v)
      [] value.t = "str" -> int_of_str(value.s)
      [] value.t = "inf" -> IntOverflow
      [] OTHER -> IntError

UntitledTitle == <<"U","n","t","i","t","l","e","d"," ","A","I"," ",
                   "C","h","a","p","t","e","r">>

\* str(item.get("title", "Untitled AI Chapter")).strip() for a title that is a
\* JSON string or is missing, and the default f"Chapter {chap_num} (AI)" for
\* a title that is empty
AiTitle(value, chap_num) ==
    LET title == IF value.t = "missing" THEN UntitledTitle ELSE strip(value.s)
    IN  IF title = <<>>
        THEN <<"C","h","a","p","t","e","r"," ">> \o str_int(chap_num)
             \o <<" ","(","A","I",")">>
        ELSE title

\* an element of the answer: a JSON object with these four keys, or not one
Item(chapter_num, title, start_page, end_page) ==
    [dict |-> TRUE, chapter_num |-> chapter_num, title |-> title,
     start_page |-> start_page, end_page |-> end_page]
NotAnObject == [dict |-> FALSE, chapter_num |-> JMissing, title |-> JMissing,
                start_page |-> JMissing, end_page |-> JMissing]

\* the three int() calls of lines 214-217, in order: the first that fails
\* decides; "ok" when none does
Coercion(item) ==
    LET chap_num == IntOf(item.chapter_num)
        start_page == IntOf(item.start_page)
        end_page == IntOf(item.end_page)
    IN  IF chap_num.ok # "ok" THEN chap_num.ok
        ELSE IF start_page.ok # "ok" THEN start_page.ok
        ELSE end_page.ok

\* chap_num > 0 and 1 <= start_page <= end_page <= total_pages
BasicValidation(chap_num, start_page, end_page, total_pages) ==
    /\ chap_num > 0
    /\ 1 <= start_page
    /\ start_page <= end_page
    /\ end_page <= total_pages

RECURSIVE ValidateItems(_, _)
\* the loop at lines 209-228 over the items left: the tuples appended, what is
\* logged, and status "overflow" when an int() raised OverflowError, which the
\* except clause of line 227 does not catch
ValidateItems(items, total_pages) ==
    IF items = <<>> THEN [status |-> "ok", chapters |-> <<>>, log |-> <<>>]
    ELSE LET item == Head(items)
             rest == ValidateItems(Tail(items), total_pages)
             skip(what) == [rest EXCEPT !.log = <<Log("WARNING", what)>> \o @]
         IN  IF ~item.dict THEN skip("skipping_invalid_item")
             ELSE IF Coercion(item) = "overflow"
             THEN [status |-> "overflow", chapters |-> <<>>, log |-> <<>>]
             ELSE IF Coercion(item) = "error" THEN skip("skipping_parsing_error")
             ELSE LET chap_num == IntOf(item.chapter_num).v
                      start_page == IntOf(item.start_page).v
                      end_page == IntOf(item.end_page).v
                  IN  IF BasicValidation(chap_num, start_page, end_page, total_pages)
                      THEN [rest EXCEPT !.chapters =
                               <<<<chap_num, AiTitle(item.title, chap_num),
                                   start_page, end_page>>>> \o @]
                      ELSE skip("skipping_invalid_range")

\* one step of a stable sort by chapter_num
InsertByNum(sorted, x) ==
    LET k == Cardinality({i \in 1..Len(sorted) : sorted[i][1] <= x[1]})
    IN  SubSeq(sorted, 1, k) \o <<x>> \o SubSeq(sorted, k + 1, Len(sorted))

RECURSIVE SortByNum(_)
\* validated_chapters.sort(key=lambda x: x[0])
SortByNum(chapters) ==
    IF chapters = <<>> THEN <<>>
    ELSE InsertByNum(SortByNum(SubSeq(chapters, 1, Len(chapters) - 1)),
                     chapters[Len(chapters)])

\* ---------------------------------------------------------- the answer text
\* response.text is a list of tokens: the fences ```json and ```, whitespace,
\* and bodies; a body is a JSON text (what it parses to) or not JSON at all.
Payload(json, items) == [json |-> json, items |-> items]
NoPayload == Payload("none", <<>>)
Tok(t) == [tok |-> t, body |-> NoPayload]
Body(payload) == [tok |-> "body", body |-> payload]

\* str.strip() on tokens
StripTokens(text) ==
    LET keep == {i \in 1..Len(text) : text[i].tok # "space"}
    IN  IF keep = {} THEN <<>>
        ELSE LET lo == CHOOSE i \in keep : \A j \in keep : i <= j
                 hi == CHOOSE i \in keep : \A j \in keep : j <= i
             IN  SubSeq(text, lo, hi)

\* lines 192-199: strip, drop a leading ```json, drop a trailing ```, strip
CleanFences(text) ==
    LET stripped == StripTokens(text)
        opened == IF stripped # <<>> /\ stripped[1].tok = "fence_json"
                  THEN Tail(stripped) ELSE stripped
        closed == IF opened # <<>> /\ opened[Len(opened)].tok = "fence"
                  THEN SubSeq(opened, 1, Len(opened) - 1) ELSE opened
    IN  StripTokens(closed)

\* json.loads(raw_json): a value when raw_json is one JSON text (whitespace
\* around it allowed), JSONDecodeError otherwise
json_loads(raw_json) ==
    LET inner == StripTokens(raw_json)
    IN  IF /\ Len(inner) = 1
           /\ inner[1].tok = "body"
           /\ inner[1].body.json # "invalid"
        THEN inner[1].body
        ELSE Payload("JSONDecodeError", <<>>)

\* ParseResponse without the test of lines 230-232: an empty validated list
\* is sorted and returned like any other
ParseResponseNoEmptyCheck(text, total_pages) ==
    LET ai_chapters_raw == json_loads(CleanFences(text))
        received == <<Log("INFO", "response_received")>>
    IN  IF ai_chapters_raw.json = "JSONDecodeError"
        THEN [ret |-> NoneValue,
              log |-> received \o <<Log("ERROR", "json_parse_failed"),
                                    Log("DEBUG", "raw_response")>>]
        ELSE IF ai_chapters_raw.json # "list"
        THEN [ret |-> NoneValue, log |-> received \o <<Log("ERROR", "not_a_list")>>]
        ELSE LET validated == ValidateItems(ai_chapters_raw.items, total_pages)
             IN  IF validated.status = "overflow"
                 THEN [ret |-> NoneValue,
                       log |-> received \o <<Log("ERROR", "ai_interaction")>>]
                 ELSE [ret |-> Returned(SortByNum(validated.chapters)),
                       log |-> received \o validated.log
                               \o <<Log("INFO", "analysis_complete")>>]

\* lines 192-240, for a response with parts: the return value and the log
ParseResponse(text, total_pages) ==
    LET ai_chapters_raw == json_loads(CleanFences(text))
        received == <<Log("INFO", "response_received")>>
    IN  IF ai_chapters_raw.json = "JSONDecodeError"
        THEN [ret |-> NoneValue,
              log |-> received \o <<Log("ERROR", "json_parse_failed"),
                                    Log("DEBUG", "raw_response")>>]
        ELSE IF ai_chapters_raw.json # "list"
        THEN [ret |-> NoneValue, log |-> received \o <<Log("ERROR", "not_a_list")>>]
        ELSE LET validated == ValidateItems(ai_chapters_raw.items, total_pages)
             IN  IF validated.status = "overflow"
                 THEN [ret |-> NoneValue,
                       log |-> received \o <<Log("ERROR", "ai_interaction")>>]
                 ELSE IF validated.chapters = <<>>
                 THEN [ret |-> NoneValue,
                       log |-> received \o validated.log
                               \o <<Log("ERROR", "no_valid_ranges")>>]
                 ELSE [ret |-> Returned(SortByNum(validated.chapters)),
                       log |-> received \o validated.log
                               \o <<Log("INFO", "analysis_complete")>>]

\* lines 168-254: what an answer of the model service leads to
HandleResponse(resp, total_pages) ==
    CASE resp.kind = "error" ->
            [ret |-> NoneValue, log |-> <<Log("ERROR", "ai_interaction")>>]
      [] resp.kind = "empty" ->
            [ret |-> NoneValue,
             log |-> <<Log("WARNING", "empty_response")>>
                     \o (IF resp.finish_reason = "" THEN <<>>
                         ELSE <<Log("INFO", "finish_reason")>>)
                     \o (IF resp.finish_reason \notin {"", "STOP"}
                         THEN <<Log("WARNING", "safety_block")>> ELSE <<>>)]
      [] OTHER -> ParseResponse(resp.text, total_pages)

\* ------------------------------------------------------------ answers drawn
Response(kind, finish_reason, text) ==
    [kind |-> kind, finish_reason |-> finish_reason, text |-> text]

TitleValues == {JMissing, JStr(<<" ">>), JStr(<<" ","A"," ">>)}

\* objects whose three numbers are JSON integers: chapter numbers 0, 1, 2,
\* start pages from 0 to MaxAiPage, end pages from 1 to one past MaxAiPage
PlainItems ==
    {Item(JInt(n), JStr(<<"A">>), JInt(a), JInt(b)) :
        n \in {0, 1, 2}, a \in 0..MaxAiPage, b \in 1..(MaxAiPage + 1)}

\* objects with one value that is out of range or not a JSON integer, the
\* other values being valid; and an element that is not an object
OddValues == {JInt(0), JMissing, JNull, JStr(<<" ","1"," ">>),
              JStr(<<"1",".","5">>), JFloat(1), JBool(1), JInf}
OddItems ==
    {Item(JInt(2), JStr(<<"B">>), v, JInt(1)) : v \in OddValues}
    \cup {Item(v, JStr(<<"B">>), JInt(1), JInt(1)) : v \in {JInt(0), JNull, JInf}}
    \cup {Item(JInt(2), JStr(<<"B">>), JInt(1), v) : v \in {JNull, JInf}}
    \cup {Item(JInt(1), t, JInt(1), JInt(1)) : t \in TitleValues}
    \cup {NotAnObject}

Items == PlainItems \cup OddItems

ItemLists(maxlen) == UNION {[1..n -> Items] : n \in 0..maxlen}

\* the ways an answer wraps a body
Wrapped(body) ==
    {<<Tok("fence_json"), Tok("space"), body, Tok("space"), Tok("fence")>>,
     <<Tok("fence_json"), body>>,
     <<Tok("fence"), Tok("space"), body, Tok("space"), Tok("fence")>>,
     <<Tok("space"), body, Tok("space")>>,
     <<body, Tok("space"), body>>,
     <<Tok("space")>>}

Responses ==
    {Response("error", "", <<>>)}
    \cup {Response("empty", r, <<>>) : r \in {"", "STOP", "SAFETY"}}
    \cup {Response("text", "STOP", <<Body(Payload("list", items))>>) :
             items \in ItemLists(MaxItems)}
    \cup {Response("text", "STOP", <<Body(Payload(j, <<>>))>>) :
             j \in {"object", "number", "invalid"}}
    \cup {Response("text", "STOP", text) :
             text \in UNION {Wrapped(Body(Payload("list", items))) :
                                items \in ItemLists(1)}}

\* documents drawn for the model resolver: none, or the last two page counts
AiPageCounts == {0, MaxAiPage - 1, MaxAiPage}

\* --------------------------------------------------- get_chapter_ranges_from_ai
InitAi ==
    /\ op = "idle"
    /\ toc = <<>>
    /\ page_count \in AiPageCounts
    /\ api_key \in {"", "key"}
    /\ configure_error \in BOOLEAN
    /\ page_text \in {"ok", "raise"}
    /\ response = NoResponse
    /\ calls = <<>>
    /\ ManualUnused
    /\ ExtractUnused
    /\ GuiUnused
    /\ CliUnused
    /\ ret = Pending
    /\ log = <<>>

\* configure_gemini (lines 31-46): whether it returns True, and what it logs
configure_gemini ==
    IF api_key = ""
    THEN [ok |-> FALSE, calls |-> <<>>, log |-> <<Log("ERROR", "api_key_not_found")>>]
    ELSE IF configure_error
    THEN [ok |-> FALSE, calls |-> <<"genai.configure">>,
          log |-> <<Log("ERROR", "configure_failed")>>]
    ELSE [ok |-> TRUE, calls |-> <<"genai.configure">>,
          log |-> <<Log("INFO", "configured")>>]

\* extract_text_with_page_markers (lines 121-132): one marked chunk per page;
\* page.get_text may raise, and nothing in the function catches it
extract_text_with_page_markers ==
    IF page_count > 0 /\ page_text = "raise"
    THEN [raised |-> TRUE, full_text |-> <<>>, calls |-> <<"page.get_text">>,
          log |-> <<Log("INFO", "extracting_text")>>]
    ELSE [raised |-> FALSE,
          full_text |-> [i \in 1..page_count |-> <<"page_marker", i>>],
          calls |-> [i \in 1..page_count |-> "page.get_text"],
          log |-> <<Log("INFO", "extracting_text"), Log("INFO", "extraction_complete")>>]

\* the call returns before the model is asked (lines 137-145)
AiReturnsEarly ==
    LET configured == configure_gemini
        extracted == extract_text_with_page_markers
    IN  /\ \/ ~configured.ok
           \/ extracted.raised
           \/ extracted.full_text = <<>>
        /\ response' = response
        /\ IF ~configured.ok
           THEN /\ ret' = NoneValue
                /\ calls' = configured.calls
                /\ log' = configured.log
           ELSE IF extracted.raised
           THEN /\ ret' = Raised
                /\ calls' = configured.calls \o extracted.calls
                /\ log' = configured.log \o extracted.log
           ELSE /\ ret' = NoneValue
                /\ calls' = configured.calls \o extracted.calls
                /\ log' = configured.log \o extracted.log
                          \o <<Log("ERROR", "no_text_extracted")>>

\* AiAsksModel without the test of the extracted text (lines 143-145)
AiAsksModelAnyText(resp) ==
    LET configured == configure_gemini
        extracted == extract_text_with_page_markers
        handled == HandleResponse(resp, page_count)
    IN  /\ configured.ok
        /\ ~extracted.raised
        /\ response' = resp
        /\ calls' = configured.calls \o extracted.calls \o <<"model.generate_content">>
        /\ ret' = handled.ret
        /\ log' = configured.log \o extracted.log
                  \o <<Log("INFO", "sending_text")>> \o handled.log

\* the model is asked and answers resp (lines 167-254)
AiAsksModel(resp) ==
    LET configured == configure_gemini
        extracted == extract_text_with_page_markers
        handled == HandleResponse(resp, page_count)
    IN  /\ configured.ok
        /\ ~extracted.raised
        /\ extracted.full_text # <<>>
        /\ response' = resp
        /\ calls' = configured.calls \o extracted.calls \o <<"model.generate_content">>
        /\ ret' = handled.ret
        /\ log' = configured.log \o extracted.log
                  \o <<Log("INFO", "sending_text")>> \o handled.log

CallAi ==
    /\ op = "idle"
    /\ op' = "ai"
    /\ AiReturnsEarly \/ \E resp \in Responses : AiAsksModel(resp)
    /\ UNCHANGED <<toc, page_count, api_key, configure_error, page_text,
                   manualVars, extractVars, guiVars, cliVars>>

NextAi == CallAi

SpecAi == InitAi /\ [][NextAi]_vars

\* -------------------------------------------------------- parse_manual_ranges
RECURSIVE Split(_, _)
\* s.split(sep): the pieces of s between the occurrences of sep
Split(s, sep) ==
    IF \A i \in 1..Len(s) : s[i] # sep THEN <<s>>
    ELSE LET k == CHOOSE i \in 1..Len(s) :
                      s[i] = sep /\ \A j \in 1..(i - 1) : s[j] # sep
         IN  <<SubSeq(s, 1, k - 1)>> \o Split(SubSeq(s, k + 1, Len(s)), sep)

\* s.split(sep, 1): s cut at the first sep, or s alone when it has none
SplitOnce(s, sep) ==
    IF \A i \in 1..Len(s) : s[i] # sep THEN <<s>>
    ELSE LET k == CHOOSE i \in 1..Len(s) :
                      s[i] = sep /\ \A j \in 1..(i - 1) : s[j] # sep
         IN  <<SubSeq(s, 1, k - 1), SubSeq(s, k + 1, Len(s))>>

\* f"Chapter {chap_num} (Manual)"
ManualTitle(chap_num) ==
    <<"C","h","a","p","t","e","r"," ">> \o str_int(chap_num)
    \o <<" ","(","M","a","n","u","a","l",")">>

\* the body of the loop at lines 262-274 for one part: "skip" for an empty
\* part, "error" when a statement raises, "ok" with the tuple appended
ParsePart(part, total_pages) ==
    LET stripped == strip(part)
        halves == SplitOnce(stripped, ":")
        pages == SplitOnce(halves[2], "-")
        chap_num == int_of_str(halves[1])
        start_page == int_of_str(pages[1])
        end_page == int_of_str(pages[2])
        failed == [status |-> "error", chapter |-> <<>>]
    IN  IF stripped = <<>> THEN [status |-> "skip", chapter |-> <<>>]
        ELSE IF Len(halves) # 2 THEN failed
        ELSE IF Len(pages) # 2 THEN failed
        ELSE IF chap_num.ok # "ok" \/ start_page.ok # "ok" \/ end_page.ok # "ok"
        THEN failed
        ELSE IF \/ start_page.v <= 0
                \/ end_page.v < start_page.v
                \/ end_page.v > total_pages
        THEN failed
        ELSE [status |-> "ok",
              chapter |-> <<chap_num.v, ManualTitle(chap_num.v),
                            start_page.v, end_page.v>>]

RECURSIVE ParsePartsLenient(_, _)
\* ParseParts with a part that raises skipped instead of ending the loop
ParsePartsLenient(parts, total_pages) ==
    IF parts = <<>> THEN [status |-> "ok", chapters |-> <<>>]
    ELSE LET parsed == ParsePart(Head(parts), total_pages)
             rest == ParsePartsLenient(Tail(parts), total_pages)
         IN  IF parsed.status = "ok"
             THEN [rest EXCEPT !.chapters = <<parsed.chapter>> \o @]
             ELSE rest

RECURSIVE ParsePartsStopAtBlank(_, _)
\* ParseParts with an empty part ending the loop (break for continue)
ParsePartsStopAtBlank(parts, total_pages) ==
    IF parts = <<>> THEN [status |-> "ok", chapters |-> <<>>]
    ELSE LET parsed == ParsePart(Head(parts), total_pages)
             rest == ParsePartsStopAtBlank(Tail(parts), total_pages)
         IN  IF parsed.status = "error" THEN [status |-> "error", chapters |-> <<>>]
             ELSE IF parsed.status = "skip" THEN [status |-> "ok", chapters |-> <<>>]
             ELSE IF rest.status = "error" THEN rest
             ELSE [rest EXCEPT !.chapters = <<parsed.chapter>> \o @]

RECURSIVE ParseParts(_, _)
\* the loop at lines 261-274: the chapters appended, or "error" as soon as a
\* part raises
ParseParts(parts, total_pages) ==
    IF parts = <<>> THEN [status |-> "ok", chapters |-> <<>>]
    ELSE LET parsed == ParsePart(Head(parts), total_pages)
             rest == ParseParts(Tail(parts), total_pages)
         IN  IF parsed.status = "error" THEN [status |-> "error", chapters |-> <<>>]
             ELSE IF parsed.status = "skip" THEN rest
             ELSE IF rest.status = "error" THEN rest
             ELSE [rest EXCEPT !.chapters = <<parsed.chapter>> \o @]

\* parse_manual_ranges (lines 256-281): the return value and the log
parse_manual_ranges(text, total_pages) ==
    LET parsed == ParseParts(Split(text, ","), total_pages)
    IN  IF parsed.status = "error"
        THEN [ret |-> NoneValue,
              log |-> <<Log("ERROR", "error_parsing_manual_ranges"),
                        Log("INFO", "expected_format")>>]
        ELSE [ret |-> Returned(SortByNum(parsed.chapters)), log |-> <<>>]

\* ------------------------------------------------------------ entries typed
\* An entry is the text typed between two commas and what it was meant as:
\* "range" for ChapterNum:StartPage-EndPage with its three numbers, "blank"
\* for nothing but whitespace, "malformed" for anything else.
Entry(text, meant, chap, start, end) ==
    [text |-> text, meant |-> meant, chap |-> chap, start |-> start, end |-> end]

\* chapter numbers 1 and 2, start pages from 0 to MaxManualPage, end pages
\* from 1 to one past MaxManualPage, written without spaces
PlainEntries ==
    {Entry(str_int(n) \o <<":">> \o str_int(a) \o <<"-">> \o str_int(b),
           "range", n, a, b) :
        n \in {1, 2}, a \in 0..MaxManualPage, b \in 1..(MaxManualPage + 1)}

\* ranges written with spaces, signs, leading zeros and more than one digit
OddEntries == {
    Entry(<<" ","1"," ",":"," ","1"," ","-"," ","1"," ">>, "range", 1, 1, 1),
    Entry(<<"-","1",":","1","-","1">>, "range", -1, 1, 1),
    Entry(<<"0",":","1","-","1">>, "range", 0, 1, 1),
    Entry(<<"+","2",":","1","-","1">>, "range", 2, 1, 1),
    Entry(<<"1","0",":","1","-","0","1">>, "range", 10, 1, 1) }

BlankEntries == {
    Entry(<<>>, "blank", 0, 0, 0),
    Entry(<<" ">>, "blank", 0, 0, 0) }

\* a missing colon, a missing dash, a token that is not an integer
MalformedEntries == {
    Entry(<<"1",":","1">>, "malformed", 0, 0, 0),
    Entry(<<"1","-","1">>, "malformed", 0, 0, 0),
    Entry(<<"1">>, "malformed", 0, 0, 0),
    Entry(<<"x",":","1","-","1">>, "malformed", 0, 0, 0),
    Entry(<<"1",":","x","-","1">>, "malformed", 0, 0, 0),
    Entry(<<"1",":","1","-","x">>, "malformed", 0, 0, 0),
    Entry(<<"1",":","1","-","1","-","1">>, "malformed", 0, 0, 0),
    Entry(<<"1",":","1",":","1","-","1">>, "malformed", 0, 0, 0),
    Entry(<<"1",":","-","1","-","1">>, "malformed", 0, 0, 0) }

Entries == PlainEntries \cup OddEntries \cup BlankEntries \cup MalformedEntries

RECURSIVE JoinTexts(_)
\* the entries as one line, a comma between each two
JoinTexts(entries) ==
    IF entries = <<>> THEN <<>>
    ELSE IF Len(entries) = 1 THEN entries[1].text
    ELSE entries[1].text \o <<",">> \o JoinTexts(Tail(entries))

\* the worked examples: "1:1-10, 2:11-20" and "1:1-25" in a 20-page document
ExampleRanges ==
    <<Entry(<<"1",":","1","-","1","0">>, "range", 1, 1, 10),
      Entry(<<" ","2",":","1","1","-","2","0">>, "range", 2, 11, 20)>>
ExampleTooLong == <<Entry(<<"1",":","1","-","2","5">>, "range", 1, 1, 25)>>
ExamplePageCount == 20

InitManual ==
    /\ op = "idle"
    /\ toc = <<>>
    /\ \/ /\ page_count \in 1..MaxManualPage
          /\ typed \in UNION {[1..n -> Entries] : n \in 0..MaxEntries}
       \/ /\ page_count = ExamplePageCount
          /\ typed \in {ExampleRanges, ExampleTooLong}
    /\ AiUnused
    /\ ExtractUnused
    /\ GuiUnused
    /\ CliUnused
    /\ range_string = JoinTexts(typed)
    /\ ret = Pending
    /\ log = <<>>

CallManual ==
    /\ op = "idle"
    /\ op' = "manual"
    /\ ret' = parse_manual_ranges(range_string, page_count).ret
    /\ log' = parse_manual_ranges(range_string, page_count).log
    /\ UNCHANGED <<toc, page_count, aiVars, manualVars, extractVars, guiVars, cliVars>>

NextManual == CallManual

SpecManual == InitManual /\ [][NextManual]_vars

\* ----------------------------------------------------------- sanitize_filename
InvalidFilenameChars == {"\\", "/", "*", "?", ":", "\"", "<", ">", "|"}

\* re.sub(r'[\\/*?:"<>|]', "", title)
RemoveInvalidChars(title) ==
    SelectSeq(title, LAMBDA c : c \notin InvalidFilenameChars)

RECURSIVE ReplaceWhitespaceFrom(_, _)
\* re.sub(r'\s+', '_', s) from position i on: a run of whitespace becomes one "_"
ReplaceWhitespaceFrom(s, i) ==
    IF i > Len(s) THEN <<>>
    ELSE IF s[i] \notin Whitespace THEN <<s[i]>> \o ReplaceWhitespaceFrom(s, i + 1)
    ELSE IF i > 1 /\ s[i-1] \in Whitespace THEN ReplaceWhitespaceFrom(s, i + 1)
    ELSE <<"_">> \o ReplaceWhitespaceFrom(s, i + 1)

sanitize_filename(title) == ReplaceWhitespaceFrom(RemoveInvalidChars(title), 1)

\* ----------------------------------------------------- extract_chapters_to_pdf
\* f"{chap_num:02d}": at least two characters, zeros in front
TwoDigits(chap_num) ==
    IF 0 <= chap_num /\ chap_num < 10 THEN <<"0">> \o str_int(chap_num)
    ELSE str_int(chap_num)

\* re.match(r'^(Chapter|Part|Section|Appendix|Introduction|Conclusion|Foreword|
\* Preface)_', safe_title, re.IGNORECASE)
HasStandardPrefix(safe_title) ==
    \E kw \in NumberedKeywords \cup PlainKeywords :
        StartsWithNoCase(safe_title, kw \o <<"_">>)

PdfSuffix == <<".","p","d","f">>

\* lines 326-334: the file name of a chapter
base_filename(chapter) ==
    LET chap_num == chapter[1]
        safe_title == sanitize_filename(chapter[2])
    IN  IF HasStandardPrefix(safe_title) THEN safe_title \o PdfSuffix
        ELSE <<"C","h","a","p","t","e","r","_">> \o TwoDigits(chap_num)
             \o <<"_">> \o safe_title \o PdfSuffix

\* adj_start_page_zero_based and adj_end_page_zero_based with the "- 1" forgotten
adj_start_page_one_based(start_page, off) == start_page - off
adj_end_page_one_based(end_page, off) == end_page - off

\* lines 310 and 312
adj_start_page_zero_based(start_page, off) == start_page - off - 1
adj_end_page_zero_based(end_page, off) == end_page - off - 1

\* ClampEnd with the test written >, so that an end on total is left alone
ClampEndAbove(adj_end, total_pages_in_doc) ==
    IF adj_end > total_pages_in_doc THEN total_pages_in_doc - 1 ELSE adj_end

\* lines 318-320
ClampEnd(adj_end, total_pages_in_doc) ==
    IF adj_end >= total_pages_in_doc THEN total_pages_in_doc - 1 ELSE adj_end

\* lines 310-323 for one chapter: whether it is skipped, the pages to copy,
\* and the warnings logged
Adjust(chapter, off, total_pages_in_doc) ==
    LET adj_start == adj_start_page_zero_based(chapter[3], off)
        adj_end == adj_end_page_zero_based(chapter[4], off)
        clamped == ClampEnd(adj_end, total_pages_in_doc)
    IN  IF adj_start < 0
        THEN [skip |-> TRUE, from_page |-> adj_start, to_page |-> adj_end,
              log |-> <<Log("WARNING", "start_before_document")>>]
        ELSE [skip |-> adj_start > clamped,
              from_page |-> adj_start, to_page |-> clamped,
              log |-> (IF adj_end >= total_pages_in_doc
                       THEN <<Log("WARNING", "end_clamped")>> ELSE <<>>)
                      \o (IF adj_start > clamped
                          THEN <<Log("WARNING", "inverted_range")>> ELSE <<>>)]

\* an exception raised by call while chapter number k of the list is processed
Exception(call, k) == [call |-> call, chapter |-> k]

\* chapter_doc.save(output_filename): the file is created or replaced
SaveFile(dir, name, k, from_page, to_page) ==
    {f \in dir : f.name # name}
    \cup {[name |-> name, chapter |-> k, from_page |-> from_page, to_page |-> to_page]}

\* what the call has done so far
Progress(done_copied, done_files, done_log) ==
    [copied |-> done_copied, files |-> done_files, log |-> done_log]

\* Failed with the files written so far removed
FailedCleanup(done, exception) ==
    [ret |-> FalseValue, raised |-> exception, copied |-> done.copied,
     files |-> {},
     log |-> done.log \o <<Log("ERROR", "extraction_error")>>]

\* the except clause of lines 351-353
Failed(done, exception) ==
    [ret |-> FalseValue, raised |-> exception, copied |-> done.copied,
     files |-> done.files,
     log |-> done.log \o <<Log("ERROR", "extraction_error")>>]

RECURSIVE ExtractFrom(_, _, _, _, _, _)
\* the loop at lines 306-347 from chapter number i on, and lines 349-353
ExtractFrom(chs, i, off, total_pages_in_doc, fault, done) ==
    IF i > Len(chs)
    THEN [ret |-> TrueValue, raised |-> NoException, copied |-> done.copied,
          files |-> done.files,
          log |-> done.log \o <<Log("INFO", "successfully_extracted")>>]
    ELSE LET adjusted == Adjust(chs[i], off, total_pages_in_doc)
             noted == Progress(done.copied, done.files, done.log \o adjusted.log)
             extracting == Progress(done.copied, done.files,
                                    noted.log \o <<Log("INFO", "extracting")>>)
             inserted == [chapter |-> i, from_page |-> adjusted.from_page,
                          to_page |-> adjusted.to_page]
         IN  IF adjusted.skip
             THEN ExtractFrom(chs, i + 1, off, total_pages_in_doc, fault, noted)
             ELSE IF fault = Exception("insert_pdf", i)
             THEN Failed(extracting, fault)
             ELSE IF fault = Exception("save", i)
             THEN Failed([extracting EXCEPT !.copied = @ \o <<inserted>>], fault)
             ELSE ExtractFrom(chs, i + 1, off, total_pages_in_doc, fault,
                      Progress(done.copied \o <<inserted>>,
                               SaveFile(done.files, base_filename(chs[i]), i,
                                        adjusted.from_page, adjusted.to_page),
                               extracting.log))

\* extract_chapters_to_pdf (lines 289-353) when fault is the exception the
\* collaborators raise, if they get that far
extract_chapters_to_pdf(chs, off, total_pages_in_doc, fault) ==
    IF fault = Exception("os.makedirs", 0)
    THEN Failed(Progress(<<>>, {}, <<>>), fault)
    ELSE ExtractFrom(chs, 1, off, total_pages_in_doc, fault, Progress(<<>>, {}, <<>>))

\* ------------------------------------------------------ chapter lists drawn
\* lists whose pages vary: chapter i has number i and the title "Chapter i"
PageShapes == {<<a, b>> : a \in 1..MaxExtractPage, b \in 1..(MaxExtractPage + 1)}
PagedChapters(shapes) ==
    [i \in 1..Len(shapes) |->
        <<i, <<"C","h","a","p","t","e","r"," ">> \o str_int(i),
          shapes[i][1], shapes[i][2]>>]

\* lists whose numbers and titles vary: chapter i is page i
ExtractTitles == {
    <<"C","h","a","p","t","e","r"," ","1">>,
    <<"C","h","a","p","t","e","r"," "," ","1","?">>,
    <<"N","o","t","e","s">>,
    <<"P","a","r","t"," ","2">>,
    <<"P","r","e","f","a","c","e">> }
NameShapes == {<<n, t>> : n \in {1, 2}, t \in ExtractTitles}
NamedChapters(shapes) ==
    [i \in 1..Len(shapes) |-> <<shapes[i][1], shapes[i][2], i, i>>]

ChapterLists ==
    {PagedChapters(shapes) :
        shapes \in UNION {[1..n -> PageShapes] : n \in 0..MaxChapters}}
    \cup {NamedChapters(shapes) :
        shapes \in UNION {[1..n -> NameShapes] : n \in 1..MaxChapters}}

ExtractPageCounts == {0, MaxExtractPage - 1, MaxExtractPage}

\* the worked example: chapter (5, 10), and one after it, in a 100-page
\* document with offset 4 or 10
ExampleExtraction ==
    [chapters |-> << <<1, <<"C","h","a","p","t","e","r"," ","1">>, 5, 10>>,
                     <<2, <<"C","h","a","p","t","e","r"," ","2">>, 11, 20>> >>,
     offsets |-> {4, 10},
     page_count |-> 100]

\* the exceptions the collaborators may raise during a call
Faults(chs) ==
    {NoException, Exception("os.makedirs", 0)}
    \cup {Exception(call, k) : call \in {"insert_pdf", "save"}, k \in 1..Len(chs)}

InitExtract ==
    /\ op = "idle"
    /\ toc = <<>>
    /\ \/ /\ chapter_list \in ChapterLists
          /\ offset \in (-1)..MaxOffset
          /\ page_count \in ExtractPageCounts
       \/ /\ chapter_list = ExampleExtraction.chapters
          /\ offset \in ExampleExtraction.offsets
          /\ page_count = ExampleExtraction.page_count
    /\ AiUnused
    /\ ManualUnused
    /\ raised = NoException
    /\ copied = <<>>
    /\ files = {}
    /\ GuiUnused
    /\ CliUnused
    /\ ret = Pending
    /\ log = <<>>

CallExtract ==
    /\ op = "idle"
    /\ op' = "extract"
    /\ \E fault \in Faults(chapter_list) :
          LET result == extract_chapters_to_pdf(chapter_list, offset, page_count, fault)
          IN  /\ ret' = result.ret
              /\ raised' = result.raised
              /\ copied' = result.copied
              /\ files' = result.files
              /\ log' = result.log
    /\ UNCHANGED <<toc, page_count, aiVars, manualVars, chapter_list, offset,
                   guiVars, cliVars>>

NextExtract == CallExtract

SpecExtract == InitExtract /\ [][NextExtract]_vars

\* ------------------------------------------------ PDFExtractorApp (the window)
\* self.doc is 0 for None, else the number of the document object it holds;
\* documents are numbered in the order fitz.open made them
NoDoc == 0
OpenedDocs == closed_docs \cup (IF self_doc = NoDoc THEN {} ELSE {self_doc})
NewDoc == Cardinality(OpenedDocs) + 1

\* a chapter tuple a resolver returned: the document it was found in and its
\* chapter_num; the list of chapters a resolver returns for a document when
\* it returns any
DetectedChapter(doc, num) == [doc |-> doc, num |-> num]
Detected(doc) == [k \in 1..MaxRows |-> DetectedChapter(doc, k)]

\* self.chapters is None until display_chapters stores a list, which is never
\* empty (line 506): None is written as the empty list
NoChapters == <<>>

\* a row of chapter_tree: the tuple tree_item_data keeps for the item, and
\* whether the item is tagged 'checked'
Row(chapter, checked) == [chapter |-> chapter, checked |-> checked]

\* a thread made by threading.Thread(target=process): "started" until process
\* evaluates self.doc, "reading" while the function it calls runs on that
\* document, "done" after; selected is the selected_chapters_data an
\* extraction thread has yet to pass to extract_chapters_to_pdf
Thread(target, pc, doc, selected) ==
    [target |-> target, pc |-> pc, doc |-> doc, selected |-> selected]

\* a thread whose process() has returned: it holds nothing any more, and
\* what it ran no longer matters
Ended == Thread("process", "done", NoDoc, <<>>)

\* a call handed to self.root.after(0, ...) that changes the chapter list or
\* the button, with the chapters display_chapters is given
Callback(fn, source, chapters) == [fn |-> fn, source |-> source, chapters |-> chapters]

\* check_doc (lines 655-661); len() of a closed document raises, so that a
\* handler does not get past the test with one
check_doc == self_doc # NoDoc /\ self_doc \notin closed_docs

\* browse_pdf (lines 353-387) when a file was chosen: the document held is
\* closed, then fitz.open returns a document or raises
browse_pdf ==
    /\ op = "gui"
    /\ closed_docs' = OpenedDocs
    /\ \/ /\ NewDoc <= MaxDocs
          /\ self_doc' = NewDoc
          /\ self_chapters' = NoChapters
          /\ tree' = <<>>
          /\ extract_btn' = "disabled"
       \/ /\ self_doc # NoDoc
          /\ UNCHANGED <<self_doc, self_chapters, tree, extract_btn>>
    /\ UNCHANGED <<threads, after>>
    /\ UNCHANGED <<op, toc, page_count, aiVars, manualVars, extractVars, cliVars,
                   ret, log>>

\* threading.Thread(target=process).start()
StartThread(target, selected) ==
    /\ Len(threads) < MaxThreads
    /\ threads' = Append(threads, Thread(target, "started", NoDoc, selected))

\* detect_toc (lines 389-412)
detect_toc ==
    /\ op = "gui"
    /\ check_doc
    /\ StartThread("toc", <<>>)
    /\ UNCHANGED <<self_doc, closed_docs, after, extract_btn, tree, self_chapters>>
    /\ UNCHANGED <<op, toc, page_count, aiVars, manualVars, extractVars, cliVars,
                   ret, log>>

\* detect_ai (lines 414-451): no thread unless configure_gemini returns True
detect_ai ==
    /\ op = "gui"
    /\ check_doc
    /\ configure_gemini.ok
    /\ StartThread("ai", <<>>)
    /\ UNCHANGED <<self_doc, closed_docs, after, extract_btn, tree, self_chapters>>
    /\ UNCHANGED <<op, toc, page_count, aiVars, manualVars, extractVars, cliVars,
                   ret, log>>

\* display_chapters (lines 499-524): the rows are replaced by those of the
\* chapters, all checked; with no chapters the tree is left empty and
\* self.chapters and the button are not touched
display_chapters(chapters, source) ==
    IF chapters = <<>>
    THEN /\ tree' = <<>>
         /\ UNCHANGED <<self_chapters, extract_btn>>
    ELSE /\ tree' = [k \in 1..Len(chapters) |-> Row(chapters[k], TRUE)]
         /\ self_chapters' = chapters
         /\ extract_btn' = "normal"

\* process_manual_entry (lines 484-497) on the dialog manual_entry opened
\* (lines 453-482): the chapters parse_manual_ranges returns are displayed; an
\* empty list or None shows an error and changes nothing
process_manual_entry ==
    /\ op = "gui"
    /\ check_doc
    /\ display_chapters(Detected(self_doc), "Manual")
    /\ UNCHANGED <<self_doc, closed_docs, threads, after>>
    /\ UNCHANGED <<op, toc, page_count, aiVars, manualVars, extractVars, cliVars,
                   ret, log>>

\* toggle_checkbox (lines 526-545) on a click in the first column of row k
toggle_checkbox(k) ==
    /\ op = "gui"
    /\ tree' = [tree EXCEPT ![k].checked = ~@]
    /\ UNCHANGED <<self_doc, closed_docs, threads, after, extract_btn, self_chapters>>
    /\ UNCHANGED <<op, toc, page_count, aiVars, manualVars, extractVars, cliVars,
                   ret, log>>

\* selected_chapters_data as self.chapters: every chapter shown, checked or not
selected_chapters_all == [k \in 1..Len(tree) |-> tree[k].chapter]

\* selected_chapters_data (lines 554-559): the tuples of the checked items, in
\* the order of chapter_tree.get_children()
selected_chapters_data ==
    LET checked == SelectSeq(tree, LAMBDA row : row.checked)
    IN  [k \in 1..Len(checked) |-> checked[k].chapter]

\* extract_chapters (lines 547-653) when the button is enabled and the dialogs
\* were confirmed; it returns at line 564 when nothing is checked
extract_chapters ==
    /\ op = "gui"
    /\ extract_btn = "normal"
    /\ check_doc
    /\ selected_chapters_data # <<>>
    /\ StartThread("extract", selected_chapters_data)
    /\ UNCHANGED <<self_doc, closed_docs, after, extract_btn, tree, self_chapters>>
    /\ UNCHANGED <<op, toc, page_count, aiVars, manualVars, extractVars, cliVars,
                   ret, log>>

\* the callbacks process() hands to root.after when its call has returned
\* chapters, returned nothing, or raised; handle_error and the messages about
\* an extraction touch neither the chapter list nor the button and are left out
Posted(target, outcome, chapters) ==
    CASE target \in {"toc", "ai"} /\ outcome # "raised" ->
            <<Callback("display_chapters", IF target = "toc" THEN "TOC" ELSE "AI",
                       chapters)>>
      [] target = "ai" ->
            <<Callback("extract_btn.config", "AI", <<>>)>>
      [] OTHER -> <<>>

\* process() reaches its call (lines 402, 437, 635): self.doc is evaluated
\* and handed to the function, with selected_chapters_data when the function
\* is the extractor; the loop over self.chapters before the call of the
\* extractor (line 616) raises when self.chapters is None
ThreadCalls(i) ==
    /\ op = "gui"
    /\ threads[i].pc = "started"
    /\ IF threads[i].target = "extract" /\ self_chapters = NoChapters
       THEN /\ threads' = [threads EXCEPT ![i] = Ended]
            /\ after' = after \o Posted("extract", "raised", <<>>)
       ELSE /\ threads' = [threads EXCEPT ![i] = Thread(@.target, "reading", self_doc, <<>>)]
            /\ after' = after
    /\ UNCHANGED <<self_doc, closed_docs, extract_btn, tree, self_chapters>>
    /\ UNCHANGED <<op, toc, page_count, aiVars, manualVars, extractVars, cliVars,
                   ret, log>>

\* the function process() called returns or raises, and process() ends; a
\* resolver that returns chapters returns those of the document it was given
ThreadReturns(i) ==
    /\ op = "gui"
    /\ threads[i].pc = "reading"
    /\ threads' = [threads EXCEPT ![i] = Ended]
    /\ \E outcome \in {"chapters", "nothing", "raised"} :
          after' = after \o Posted(threads[i].target, outcome,
                      IF outcome = "chapters" THEN Detected(threads[i].doc) ELSE <<>>)
    /\ UNCHANGED <<self_doc, closed_docs, extract_btn, tree, self_chapters>>
    /\ UNCHANGED <<op, toc, page_count, aiVars, manualVars, extractVars, cliVars,
                   ret, log>>

\* the main loop runs the oldest callback: display_chapters, or
\* extract_btn.config(state=tk.DISABLED) (line 449)
RunCallback ==
    /\ op = "gui"
    /\ after # <<>>
    /\ after' = Tail(after)
    /\ LET callback == Head(after)
       IN  CASE callback.fn = "display_chapters" ->
                    display_chapters(callback.chapters, callback.source)
             [] OTHER ->
                    /\ extract_btn' = "disabled"
                    /\ UNCHANGED <<tree, self_chapters>>
    /\ UNCHANGED <<self_doc, closed_docs, threads>>
    /\ UNCHANGED <<op, toc, page_count, aiVars, manualVars, extractVars, cliVars,
                   ret, log>>

InitGui ==
    /\ op = "gui"
    /\ toc = <<>>
    /\ page_count = 0
    /\ api_key \in {"", "key"}
    /\ configure_error = FALSE
    /\ page_text = "ok"
    /\ response = NoResponse
    /\ calls = <<>>
    /\ ManualUnused
    /\ ExtractUnused
    /\ self_doc = NoDoc
    /\ closed_docs = {}
    /\ threads = <<>>
    /\ after = <<>>
    /\ extract_btn = "disabled"
    /\ tree = <<>>
    /\ self_chapters = NoChapters
    /\ CliUnused
    /\ ret = Pending
    /\ log = <<>>

NextGui ==
    \/ browse_pdf
    \/ detect_toc
    \/ detect_ai
    \/ process_manual_entry
    \/ \E k \in 1..Len(tree) : toggle_checkbox(k)
    \/ extract_chapters
    \/ \E i \in 1..Len(threads) : ThreadCalls(i)
    \/ \E i \in 1..Len(threads) : ThreadReturns(i)
    \/ RunCallback

SpecGui == InitGui /\ [][NextGui]_vars

\* ------------------------------------------------- the command line (__main__)
\* what the user may type at a prompt, after .upper(); "X" is anything else
Answers == {"A", "T", "M", "Q", "Y", "N", "X"}

\* a call the script made: input() with its prompt and the answer typed, a
\* resolver, the extractor, or the closing message
Made(call, prompt, answer) == [call |-> call, prompt |-> prompt, answer |-> answer]
Asked(prompt, answer) == Made("input", prompt, answer)
Called(call) == Made(call, "", "")

\* where the script goes next, with source_method and confirmed_chapters
Goes(pc, method, confirmed) ==
    [pc |-> pc, source_method |-> method, confirmed_chapters |-> confirmed]

\* after a step of stages 1 to 3: the stage source_method selects (lines 418,
\* 451), else stage 4
AfterStage(method, confirmed) ==
    CASE method = "AI_Attempt" -> Goes("ai", method, confirmed)
      [] method = "Manual_Attempt" -> Goes("manual", method, confirmed)
      [] OTHER -> Goes("finish", method, confirmed)

\* lines 384-399: the prompt after the TOC resolver found chapters
TocChoice(choice) ==
    CASE choice = "A" -> AfterStage("TOC", "TOC")
      [] choice = "T" -> AfterStage("AI_Attempt", "None")
      [] choice = "M" -> AfterStage("Manual_Attempt", "None")
      [] choice = "Q" -> AfterStage("Quit", "None")
      [] OTHER -> Goes("toc_prompt", "None", "None")

\* lines 402-414: the prompt after the TOC resolver found nothing
TocEmptyChoice(choice) ==
    CASE choice = "T" -> AfterStage("AI_Attempt", "None")
      [] choice = "M" -> AfterStage("Manual_Attempt", "None")
      [] choice = "Q" -> AfterStage("Quit", "None")
      [] OTHER -> Goes("toc_empty_prompt", "None", "None")

\* lines 427-439: the prompt after the model resolver returned chapters
AiChoice(choice) ==
    CASE choice = "A" -> Goes("finish", "AI", "AI")
      [] choice = "M" -> Goes("manual", "Manual_Attempt", "None")
      [] choice = "Q" -> Goes("finish", "Quit", "None")
      [] OTHER -> Goes("ai_prompt", "AI_Attempt", "None")

\* AiFailedChoice with the else branch of line 446 left out: any answer but M
\* leaves source_method at "AI_Attempt"
AiFailedChoiceNoQuit(choice) ==
    IF choice = "M" THEN Goes("manual", "Manual_Attempt", "None")
    ELSE Goes("finish", "AI_Attempt", "None")

\* lines 442-447: the prompt after the model resolver returned nothing
AiFailedChoice(choice) ==
    IF choice = "M" THEN Goes("manual", "Manual_Attempt", "None")
    ELSE Goes("finish", "Quit", "None")

\* ManualConfirm with Q leaving the loop without source_method = "Quit"
ManualConfirmQuitUnset(confirm) ==
    CASE confirm = "Y" -> Goes("finish", "Manual", "Manual")
      [] confirm = "Q" -> Goes("finish", "Manual_Attempt", "None")
      [] OTHER -> Goes("manual", "Manual_Attempt", "None")

\* lines 461-468: the prompt after parse_manual_ranges returned chapters
ManualConfirm(confirm) ==
    CASE confirm = "Y" -> Goes("finish", "Manual", "Manual")
      [] confirm = "Q" -> Goes("finish", "Quit", "None")
      [] OTHER -> Goes("manual", "Manual_Attempt", "None")

\* lines 471-474: the prompt after parse_manual_ranges returned nothing
ManualRetry(retry) ==
    IF retry = "Y" THEN Goes("manual", "Manual_Attempt", "None")
    ELSE Goes("finish", "Quit", "None")

\* the number of input() calls made so far, the one for the path not counted
Prompts ==
    Cardinality({i \in 1..Len(session) :
        session[i].call = "input" /\ session[i].prompt # "pdf_path"})

CliGoes(next) ==
    /\ cli_pc' = next.pc
    /\ source_method' = next.source_method
    /\ confirmed_chapters' = next.confirmed_chapters

CliRest ==
    UNCHANGED <<op, toc, page_count, aiVars, manualVars, extractVars, guiVars,
                ret, log>>

\* lines 359-370: the path is asked for and the file opened; the script exits
\* when there is no such file or fitz.open raises
CliOpen ==
    /\ op = "cli"
    /\ cli_pc = "start"
    /\ \E opened \in BOOLEAN :
          /\ cli_pc' = IF opened THEN "opened" ELSE "exited"
          /\ session' = session \o <<Asked("pdf_path", "text")>>
                        \o (IF opened THEN <<>> ELSE <<Called("exit")>>)
    /\ UNCHANGED <<source_method, confirmed_chapters>>
    /\ CliRest

\* lines 372-377: the TOC resolver is called and finds chapters or none
CliDetectToc ==
    /\ op = "cli"
    /\ cli_pc = "opened"
    /\ session' = session \o <<Called("get_chapter_ranges_from_toc")>>
    /\ \E found \in BOOLEAN :
          cli_pc' = IF found THEN "toc_prompt" ELSE "toc_empty_prompt"
    /\ UNCHANGED <<source_method, confirmed_chapters>>
    /\ CliRest

\* an input() call at one of the choice prompts, and the branch its answer takes
CliPrompt ==
    /\ op = "cli"
    /\ Prompts < MaxPrompts
    /\ cli_pc \in {"toc_prompt", "toc_empty_prompt", "ai_prompt",
                   "ai_failed_prompt", "manual_confirm", "manual_retry"}
    /\ \E answer \in Answers :
          /\ session' = session \o <<Asked(cli_pc, answer)>>
          /\ CliGoes(CASE cli_pc = "toc_prompt" -> TocChoice(answer)
                       [] cli_pc = "toc_empty_prompt" -> TocEmptyChoice(answer)
                       [] cli_pc = "ai_prompt" -> AiChoice(answer)
                       [] cli_pc = "ai_failed_prompt" -> AiFailedChoice(answer)
                       [] cli_pc = "manual_confirm" -> ManualConfirm(answer)
                       [] OTHER -> ManualRetry(answer))
    /\ CliRest

\* lines 418-422, 441: the model resolver is called and returns chapters or not
CliDetectAi ==
    /\ op = "cli"
    /\ cli_pc = "ai"
    /\ session' = session \o <<Called("get_chapter_ranges_from_ai")>>
    /\ \E found \in BOOLEAN :
          cli_pc' = IF found THEN "ai_prompt" ELSE "ai_failed_prompt"
    /\ UNCHANGED <<source_method, confirmed_chapters>>
    /\ CliRest

\* lines 453-456: the ranges are asked for and parse_manual_ranges is called;
\* it returns chapters, or an empty list or None
CliManualEntry ==
    /\ op = "cli"
    /\ cli_pc = "manual"
    /\ Prompts < MaxPrompts
    /\ session' = session \o <<Asked("ranges", "text"), Called("parse_manual_ranges")>>
    /\ \E found \in BOOLEAN :
          cli_pc' = IF found THEN "manual_confirm" ELSE "manual_retry"
    /\ UNCHANGED <<source_method, confirmed_chapters>>
    /\ CliRest

\* lines 478-491: extraction, or one of the two closing messages
CliFinish ==
    /\ op = "cli"
    /\ cli_pc = "finish"
    /\ cli_pc' = "done"
    /\ session' = session \o
          <<Called(IF /\ confirmed_chapters # "None"
                      /\ source_method \notin {"Quit", "None", "AI_Attempt",
                                               "Manual_Attempt"}
                   THEN "extract_chapters_to_pdf"
                   ELSE IF source_method = "Quit" THEN "cancelled"
                   ELSE "not_confirmed")>>
    /\ UNCHANGED <<source_method, confirmed_chapters>>
    /\ CliRest

InitCli ==
    /\ op = "cli"
    /\ toc = <<>>
    /\ page_count = 0
    /\ AiUnused
    /\ ManualUnused
    /\ ExtractUnused
    /\ GuiUnused
    /\ cli_pc = "start"
    /\ source_method = "None"
    /\ confirmed_chapters = "None"
    /\ session = <<>>
    /\ ret = Pending
    /\ log = <<>>

NextCli ==
    \/ CliOpen
    \/ CliDetectToc
    \/ CliPrompt
    \/ CliDetectAi
    \/ CliManualEntry
    \/ CliFinish

SpecCli == InitCli /\ [][NextCli]_vars

\* ------------------------------------------------- reading a chapter tuple
\* (chapter_num, title, start_page, end_page)
NumOf(c) == c[1]
TitleOf(c) == c[2]
StartOf(c) == c[3]
EndOf(c) == c[4]

Overlap(c, d) == StartOf(c) <= EndOf(d) /\ StartOf(d) <= EndOf(c)

PairwiseDisjoint(chapters) ==
    \A i, j \in 1..Len(chapters) : i < j => ~Overlap(chapters[i], chapters[j])

NumberedFromOne(chapters) == \A i \in 1..Len(chapters) : NumOf(chapters[i]) = i

LoggedWhat(what) == \E i \in 1..Len(log) : log[i].what = what
LoggedLevel(levels) == \E i \in 1..Len(log) : log[i].level \in levels

\* the outline positions of the level-1 entries with page > 0, those of them
\* with a chapter-like title, and the candidates the claims speak of
Level1Positions == {i \in 1..Len(toc) : toc[i].level = 1 /\ toc[i].page > 0}
MatchingPositions == {i \in Level1Positions : is_potential(toc[i].title)}
CandidatePositions ==
    LET matching == MatchingPositions
    IN  IF matching # {} THEN matching ELSE Level1Positions
CandidatePages == {toc[i].page : i \in CandidatePositions}
TocCalled == op = "toc"

\* ------------------------------------------------------------------ claims
\* C1: whenever get_chapter_ranges_from_toc returns a non-empty list, its
\* ranges are pairwise non-overlapping and its chapter_num values are exactly
\* 1, 2, ..., N in list order, also when an entry was skipped.
C1_TocDisjointNumbered ==
    (TocCalled /\ ret.value # <<>>) =>
        /\ ret.kind = "list"
        /\ PairwiseDisjoint(ret.value)
        /\ NumberedFromOne(ret.value)

\* a call that returned at least two chapters and skipped the entry after them
C1_Witness ==
    /\ TocCalled
    /\ Len(ret.value) >= 2
    /\ LoggedWhat("skipping_chapter")

C3_TocSortedFirstKept ==
    TocCalled =>
        LET candidates == CandidatePositions
        IN  /\ \A i \in 1..(Len(ret.value) - 1) :
                  StartOf(ret.value[i]) < StartOf(ret.value[i+1])
            /\ \A i \in 1..Len(ret.value) :
                  \E k \in candidates :
                      /\ toc[k].page = StartOf(ret.value[i])
                      /\ \A j \in candidates : toc[j].page = toc[k].page => k <= j
                      /\ TitleOf(ret.value[i]) = strip(toc[k].title)
            /\ (toc = ExampleDoc.toc /\ page_count = ExampleDoc.page_count) =>
                  /\ [i \in 1..Len(ret.value) |-> StartOf(ret.value[i])] = <<1, 10, 25>>
                  /\ [i \in 1..Len(ret.value) |-> EndOf(ret.value[i])] = <<9, 24, 30>>

\* the example outline, with its two entries on page 1, has been resolved
C3_Witness ==
    /\ TocCalled
    /\ toc = ExampleDoc.toc
    /\ Len(ret.value) = 3
    /\ LoggedWhat("duplicate_toc_entry")

\* C4: the chapters come from the level-1 entries with page > 0 whose title is
\* chapter-like when there is one, from all level-1 entries with page > 0
\* otherwise, and never from an entry of another level or with page <= 0.
C4_TocCandidates ==
    TocCalled =>
        LET candidates == CandidatePositions
            pages == {toc[i].page : i \in candidates}
        IN  /\ {StartOf(ret.value[i]) : i \in 1..Len(ret.value)}
                  = {p \in pages : p <= page_count \/ \E q \in pages : q > p}
            /\ \A i \in 1..Len(ret.value) :
                  \E k \in candidates :
                      /\ toc[k].page = StartOf(ret.value[i])
                      /\ strip(toc[k].title) = TitleOf(ret.value[i])

\* an outline with a chapter-like level-1 entry, another level-1 entry that is
\* not chapter-like, and a level-2 entry, all on pages of their own
C4_Witness ==
    /\ TocCalled
    /\ MatchingPositions # {}
    /\ \E i \in Level1Positions \ MatchingPositions, j \in 1..Len(toc) :
          /\ toc[j].level = 2
          /\ toc[j].page > 0
          /\ toc[i].page \notin CandidatePages
          /\ toc[j].page \notin CandidatePages
    /\ ret.value # <<>>

\* C5: without a level-1 entry with page > 0 the function returns the empty
\* list: a normal return value, not None and not an exception.
C5_TocEmptyResult ==
    (TocCalled /\ Level1Positions = {}) => ret = Returned(<<>>)

\* a non-empty outline without such an entry has been resolved
C5_Witness ==
    /\ TocCalled
    /\ toc # <<>>
    /\ \E i \in 1..Len(toc) : toc[i].level = 1 /\ toc[i].page <= 0
    /\ Level1Positions = {}
    /\ ret = Returned(<<>>)

\* the model resolver has been called and the model answered a JSON list
AiCalled == op = "ai"
AnsweredList ==
    /\ AiCalled
    /\ response.kind = "text"
    /\ json_loads(CleanFences(response.text)).json = "list"
AnsweredItems == json_loads(CleanFences(response.text)).items

\* the predicate of the specification on an element of the answer
ItemIsValid(item) ==
    /\ item.dict
    /\ IntOf(item.chapter_num).ok = "ok"
    /\ IntOf(item.start_page).ok = "ok"
    /\ IntOf(item.end_page).ok = "ok"
    /\ IntOf(item.chapter_num).v > 0
    /\ 1 <= IntOf(item.start_page).v
    /\ IntOf(item.start_page).v <= IntOf(item.end_page).v
    /\ IntOf(item.end_page).v <= page_count

NumbersOf(item) ==
    <<IntOf(item.chapter_num).v, IntOf(item.start_page).v, IntOf(item.end_page).v>>
NumbersOfChapter(c) == <<NumOf(c), StartOf(c), EndOf(c)>>

\* C6 as stated: an element of the answer is kept if and only if it is valid,
\* so the returned chapters are, counted with repetition, the valid elements,
\* and an invalid element does not discard the valid ones.
C6_AiKeepsExactlyValid ==
    AnsweredList =>
        LET items == AnsweredItems
            valid == {i \in 1..Len(items) : ItemIsValid(items[i])}
        IN  /\ \A j \in 1..Len(ret.value) :
                  \E i \in valid : NumbersOf(items[i]) = NumbersOfChapter(ret.value[j])
            /\ \A i \in valid :
                  Cardinality({j \in 1..Len(ret.value) :
                                  NumbersOfChapter(ret.value[j]) = NumbersOf(items[i])})
                  = Cardinality({k \in valid : NumbersOf(items[k]) = NumbersOf(items[i])})

\* C7: the model resolver never returns an empty list; when no element of the
\* answer survives validation, the answer [] included, it returns None.
C7_AiNeverEmpty ==
    AiCalled =>
        /\ ~(ret.kind = "list" /\ ret.value = <<>>)
        /\ (AnsweredList /\ \A i \in 1..Len(AnsweredItems) : ~ItemIsValid(AnsweredItems[i]))
              => ret = NoneValue

\* the model answered [], and the call returned None with the error logged
C7_Witness ==
    /\ AnsweredList
    /\ AnsweredItems = <<>>
    /\ ret = NoneValue
    /\ LoggedWhat("no_valid_ranges")

\* C8 as stated: in every list the model resolver returns the chapter_num
\* values strictly increase and no two ranges share a page.
C8_AiPartitionInvariant ==
    (AiCalled /\ ret.kind = "list") =>
        /\ \A i \in 1..(Len(ret.value) - 1) :
              NumOf(ret.value[i]) < NumOf(ret.value[i+1])
        /\ PairwiseDisjoint(ret.value)

\* C9 as stated: the call never lets an exception out, and a call that
\* returns None has logged an error or a warning.
C9_AiNeverRaises ==
    AiCalled =>
        /\ ret.kind # "raise"
        /\ ret = NoneValue => LoggedLevel({"ERROR", "WARNING"})

\* the manual parser has been called; an entry that is a range outside the
\* document, and an entry that must make the whole call fail
ManualCalled == op = "manual"
OutOfBounds(entry) ==
    /\ entry.meant = "range"
    /\ entry.start < 1 \/ entry.end < entry.start \/ entry.end > page_count
Offending(entry) == entry.meant = "malformed" \/ OutOfBounds(entry)
InBounds(entry) == entry.meant = "range" /\ ~OutOfBounds(entry)

\* C10: parse_manual_ranges is all-or-nothing: when any non-empty entry is
\* malformed or out of bounds it returns None and logs an error, however many
\* entries before it were valid; it never returns a partial list.
C10_ManualAllOrNothing ==
    (ManualCalled /\ \E i \in 1..Len(typed) : Offending(typed[i])) =>
        /\ ret = NoneValue
        /\ LoggedLevel({"ERROR"})

\* a valid entry followed by an offending one, and the call returned None
C10_Witness ==
    /\ ManualCalled
    /\ Len(typed) >= 2
    /\ InBounds(typed[1])
    /\ Offending(typed[2])
    /\ ret = NoneValue

\* the entries that are not blank, and the three numbers of an entry
NonBlank == {i \in 1..Len(typed) : typed[i].meant # "blank"}
NumbersOfEntry(entry) == <<entry.chap, entry.start, entry.end>>
ReturnedNumbers == [j \in 1..Len(ret.value) |-> NumbersOfChapter(ret.value[j])]

\* C11: when every non-empty entry is well-formed and in bounds,
\* parse_manual_ranges returns one chapter per non-empty entry, carrying the
\* entry's chapter number, start and end page, with
\* 1 <= start_page <= end_page <= total_pages; "1:1-10, 2:11-20" in a 20-page
\* document gives (1,_,1,10), (2,_,11,20) and "1:1-25" gives an error.
C11_ManualOnePerEntry ==
    ManualCalled =>
        /\ (\A i \in NonBlank : InBounds(typed[i])) =>
              /\ ret.kind = "list"
              /\ Len(ret.value) = Cardinality(NonBlank)
              /\ \A i \in NonBlank :
                    Cardinality({j \in 1..Len(ret.value) :
                        ReturnedNumbers[j] = NumbersOfEntry(typed[i])})
                    = Cardinality({k \in NonBlank :
                        NumbersOfEntry(typed[k]) = NumbersOfEntry(typed[i])})
              /\ \A j \in 1..Len(ret.value) :
                    /\ 1 <= StartOf(ret.value[j])
                    /\ StartOf(ret.value[j]) <= EndOf(ret.value[j])
                    /\ EndOf(ret.value[j]) <= page_count
        /\ (typed = ExampleRanges /\ page_count = ExamplePageCount) =>
              ret.kind = "list" /\ ReturnedNumbers = << <<1, 1, 10>>, <<2, 11, 20>> >>
        /\ (typed = ExampleTooLong /\ page_count = ExamplePageCount) =>
              ret = NoneValue /\ LoggedLevel({"ERROR"})

\* a blank entry before a range in bounds, and one chapter returned
C11_Witness ==
    /\ ManualCalled
    /\ Len(typed) >= 2
    /\ typed[1].meant = "blank"
    /\ InBounds(typed[2])
    /\ ret.kind = "list"
    /\ Len(ret.value) = 1

\* C12 as stated: in every list parse_manual_ranges returns each chapter_num
\* is positive, the chapter_num values strictly increase in list order, and
\* no two ranges share a page.
C12_ManualPartitionInvariant ==
    (ManualCalled /\ ret.kind = "list") =>
        /\ \A i \in 1..Len(ret.value) : NumOf(ret.value[i]) > 0
        /\ \A i \in 1..(Len(ret.value) - 1) :
              NumOf(ret.value[i]) < NumOf(ret.value[i+1])
        /\ PairwiseDisjoint(ret.value)

\* C13 as stated: for every input parse_manual_ranges returns a list with at
\* least one chapter, or returns None with an error logged; it never returns
\* an empty list.
C13_ManualNeverEmpty ==
    ManualCalled =>
        \/ ret.kind = "list" /\ ret.value # <<>>
        \/ ret = NoneValue /\ LoggedLevel({"ERROR"})

\* extract_chapters_to_pdf has been called; the physical pages of chapter i of
\* the list as the specification computes them, and the copies made of it
ExtractCalled == op = "extract"
PhysicalStart(i) == StartOf(chapter_list[i]) - offset - 1
PhysicalEnd(i) == EndOf(chapter_list[i]) - offset - 1
ClampedEnd(i) ==
    IF PhysicalEnd(i) >= page_count THEN page_count - 1 ELSE PhysicalEnd(i)
CopiesOf(i) == {j \in 1..Len(copied) : copied[j].chapter = i}
ToBeSkipped(i) == PhysicalStart(i) < 0 \/ PhysicalStart(i) > ClampedEnd(i)
IsExample(off) ==
    /\ chapter_list = ExampleExtraction.chapters
    /\ page_count = ExampleExtraction.page_count
    /\ offset = off

C15_ExtractCopiesInBounds ==
    ExtractCalled =>
        /\ \A j \in 1..Len(copied) :
              /\ 0 <= copied[j].from_page
              /\ copied[j].from_page <= copied[j].to_page
              /\ copied[j].to_page <= page_count - 1
              /\ PhysicalEnd(copied[j].chapter) >= page_count
                    => copied[j].to_page = page_count - 1
        /\ \A i \in 1..Len(chapter_list) :
              PhysicalStart(i) > ClampedEnd(i) => CopiesOf(i) = {}

\* a chapter copied with its end clamped and a chapter skipped because its
\* start lies beyond the clamped end, in one call
C15_Witness ==
    /\ ExtractCalled
    /\ \E j \in 1..Len(copied) : PhysicalEnd(copied[j].chapter) >= page_count
    /\ \E i \in 1..Len(chapter_list) :
          PhysicalStart(i) >= 0 /\ PhysicalStart(i) > ClampedEnd(i)
    /\ LoggedWhat("end_clamped")
    /\ LoggedWhat("inverted_range")

\* C16: the call returns True exactly when it went through the whole list
\* without an exception, however many chapters it skipped; when copying or
\* saving chapter k raises, no chapter after k is processed, the files written
\* for the chapters before k stay as they are, and the call returns False.
C16_ExtractTrueIffNoException ==
    ExtractCalled =>
        /\ ret \in {TrueValue, FalseValue}
        /\ ret = TrueValue <=> raised = NoException
        /\ raised = NoException =>
              \A i \in 1..Len(chapter_list) :
                  Cardinality(CopiesOf(i)) = IF ToBeSkipped(i) THEN 0 ELSE 1
        /\ raised.call \in {"insert_pdf", "save"} =>
              /\ \A j \in 1..Len(copied) : copied[j].chapter <= raised.chapter
              /\ files = extract_chapters_to_pdf(
                             SubSeq(chapter_list, 1, raised.chapter - 1),
                             offset, page_count, NoException).files
              /\ LoggedLevel({"ERROR"})

\* saving the second chapter raised after the first was written
C16_Witness ==
    /\ ExtractCalled
    /\ raised = Exception("save", 2)
    /\ ret = FalseValue
    /\ \E f \in files : f.chapter = 1

\* a partition of pages 1..total into chapters, each starting where the one
\* before it ended
Contiguous(chs, total) ==
    /\ chs # <<>>
    /\ StartOf(chs[1]) = 1
    /\ \A i \in 1..Len(chs) : StartOf(chs[i]) <= EndOf(chs[i])
    /\ \A i \in 1..(Len(chs) - 1) : StartOf(chs[i+1]) = EndOf(chs[i]) + 1
    /\ EndOf(chs[Len(chs)]) = total
CopiesCovering(p) ==
    {j \in 1..Len(copied) : copied[j].from_page <= p /\ p <= copied[j].to_page}
NothingSkippedOrClamped == ~LoggedLevel({"WARNING"})

C18_ExtractOneFilePerChapter ==
    (ExtractCalled /\ ret = TrueValue) =>
        /\ Cardinality(files) = Len(copied)
        /\ \A j \in 1..Len(copied) : \E f \in files : f.chapter = copied[j].chapter

\* the threads that are inside the function they call on a document
Reading == {i \in 1..Len(threads) : threads[i].pc = "reading"}

\* C19 as stated: the window serializes the operations on self.doc: no two
\* threads started by detect_toc, detect_ai or extract_chapters are reading a
\* document at the same time, and browse_pdf does not close or replace
\* self.doc while such a thread is still running on it.
C19_GuiSerializesDoc ==
    op = "gui" =>
        /\ Cardinality(Reading) <= 1
        /\ \A i \in Reading :
              /\ threads[i].doc \notin closed_docs
              /\ threads[i].doc = self_doc

\* the choice prompts, and a Quit answered at one of them
ChoicePrompts == {"toc_prompt", "toc_empty_prompt", "ai_prompt",
                  "ai_failed_prompt", "manual_confirm", "manual_retry"}
QuitAt(i) ==
    /\ session[i].call = "input"
    /\ session[i].prompt \in ChoicePrompts
    /\ session[i].answer = "Q"

\* C20: in the command-line flow a Quit is never lost: once the user answers
\* Quit at a prompt (TOC stage, AI stage, AI-failed prompt, manual confirm or
\* manual retry) no resolver is called, no prompt is shown and
\* extract_chapters_to_pdf is not called afterwards, and the run ends with the
\* cancelled message.
C20_CliQuitNeverLost ==
    op = "cli" =>
        \A i \in 1..Len(session) :
            QuitAt(i) =>
                /\ \A j \in (i + 1)..Len(session) : session[j] = Called("cancelled")
                /\ source_method = "Quit"
                /\ confirmed_chapters = "None"
                /\ cli_pc \in {"finish", "done"}
                /\ cli_pc = "done" => session[Len(session)] = Called("cancelled")

\* a run that fell back from the model resolver to manual entry, was answered
\* Quit at the confirmation of the ranges, and has ended
C20_Witness ==
    /\ op = "cli"
    /\ cli_pc = "done"
    /\ \E i, j \in 1..Len(session) :
          /\ i < j
          /\ session[i] = Called("get_chapter_ranges_from_ai")
          /\ QuitAt(j)
          /\ session[j].prompt = "manual_confirm"
    /\ session[Len(session)] = Called("cancelled")

\* the calls the model resolver made to the libraries, as a set
CallsMade == {calls[i] : i \in 1..Len(calls)}

\* C21: get_chapter_ranges_from_ai calls the model only after the credential
\* was configured and text extraction returned a non-empty string, in that
\* order; with a missing credential it returns None without extracting text or
\* calling the model, and with the empty text of a zero-page document it
\* returns None without calling the model.
C21_AiModelOnlyAfterKeyAndText ==
    AiCalled =>
        /\ "model.generate_content" \in CallsMade =>
              /\ api_key # ""
              /\ ~configure_error
              /\ page_count > 0
              /\ calls = <<"genai.configure">>
                         \o [i \in 1..page_count |-> "page.get_text"]
                         \o <<"model.generate_content">>
        /\ api_key = "" => ret = NoneValue /\ calls = <<>>
        /\ (api_key # "" /\ ~configure_error /\ page_count = 0) =>
              /\ ret = NoneValue
              /\ calls = <<"genai.configure">>

\* a configured call on a document without pages: the empty text is reported
\* and the model is not asked
C21_Witness ==
    /\ AiCalled
    /\ api_key # ""
    /\ page_count = 0
    /\ ret = NoneValue
    /\ LoggedWhat("no_text_extracted")
    /\ "model.generate_content" \notin CallsMade

\* the sanitized title of chapter i of the call, and whether it begins with
\* one of the keywords of line 330, whatever follows the keyword
SafeTitle(i) == sanitize_filename(TitleOf(chapter_list[i]))
BeginsWithKeyword(safe_title) ==
    \E kw \in NumberedKeywords \cup PlainKeywords : StartsWithNoCase(safe_title, kw)

\* C22 as stated: the file of a chapter whose sanitized title begins with one
\* of the keywords Chapter, Part, Section, Appendix, Introduction, Conclusion,
\* Foreword, Preface (in any case) is named by the sanitized title; the file
\* of any other chapter is named Chapter_NN_ and the sanitized title, NN the
\* chapter_num in two digits.
C22_ExtractFileStem ==
    ExtractCalled =>
        \A f \in files :
            f.name = IF BeginsWithKeyword(SafeTitle(f.chapter))
                     THEN SafeTitle(f.chapter) \o PdfSuffix
                     ELSE <<"C","h","a","p","t","e","r","_">>
                          \o TwoDigits(NumOf(chapter_list[f.chapter]))
                          \o <<"_">> \o SafeTitle(f.chapter) \o PdfSuffix

\* the rows of the tree that are checked, and the j-th of them from the top
CheckedRows == {k \in 1..Len(tree) : tree[k].checked}
CheckedRow(j) ==
    CHOOSE k \in CheckedRows : Cardinality({m \in CheckedRows : m <= k}) = j

\* the threads that are to call the extractor, each with its list
Extracting == {i \in 1..Len(threads) : threads[i].target = "extract"
                                       /\ threads[i].pc = "started"}

\* C23: in the window the list extract_chapters_to_pdf is called with is the
\* chapters whose row is checked when Extract is pressed, in the order shown,
\* and is never empty: a thread that is to call the extractor is started with
\* that list, whatever display_chapters and toggle_checkbox did before, and
\* the list it holds is not changed until it is passed.
C23_GuiExtractsCheckedRows ==
    [][(op = "gui" /\ threads' # threads) =>
          /\ \A i \in 1..Len(threads) :
                threads'[i].pc = "started" => threads'[i] = threads[i]
          /\ (Len(threads') > Len(threads)
               /\ threads'[Len(threads')].target = "extract") =>
                 LET passed == threads'[Len(threads')].selected
                 IN  /\ passed # <<>>
                     /\ Len(passed) = Cardinality(CheckedRows)
                     /\ \A j \in 1..Len(passed) :
                           passed[j] = tree[CheckedRow(j)].chapter]_vars

\* a thread was started with the one checked chapter of a list whose first
\* row the user had unchecked
C23_Witness ==
    /\ op = "gui"
    /\ Len(tree) >= 2
    /\ ~tree[1].checked
    /\ \E i \in Extracting : threads[i].selected = <<tree[2].chapter>>

\* C24 as stated: the result of a detection on a document that browse_pdf has
\* since replaced is discarded: the chapters shown, which Extract would hand
\* to the extractor, are always chapters of the document self.doc holds.
C24_GuiStaleResultDiscarded ==
    op = "gui" =>
        \A k \in 1..Len(tree) : tree[k].chapter.doc = self_doc

\* the two states of the final dispatch (line 478): the ranges of a resolver
\* were accepted, or the user quit
Accepted ==
    /\ source_method \in {"TOC", "AI", "Manual"}
    /\ confirmed_chapters = source_method
Cancelled ==
    /\ source_method = "Quit"
    /\ confirmed_chapters = "None"

\* C25: whenever the command-line script reaches the final dispatch, either
\* confirmed_chapters is the non-empty list of the resolver source_method
\* names (TOC, AI or Manual) or confirmed_chapters is None and source_method
\* is Quit, never both; extract_chapters_to_pdf is called exactly in the first
\* state, and the branch 'No valid chapter ranges were confirmed' is never
\* taken.
C25_CliAcceptedOrCancelled ==
    (op = "cli" /\ cli_pc \in {"finish", "done"}) =>
        /\ Accepted # Cancelled
        /\ \A i \in 1..Len(session) : session[i] # Called("not_confirmed")
        /\ cli_pc = "done" =>
              session[Len(session)] = Called(IF Accepted THEN "extract_chapters_to_pdf"
                                             ELSE "cancelled")
        /\ cli_pc = "finish" =>
              \A i \in 1..Len(session) : session[i].call \notin {"extract_chapters_to_pdf",
                                                                 "cancelled"}

\* a run in which the model resolver was tried and returned nothing, the
\* ranges typed by hand were confirmed, and the extractor was called
C25_Witness ==
    /\ op = "cli"
    /\ cli_pc = "done"
    /\ Accepted
    /\ source_method = "Manual"
    /\ \E i \in 1..Len(session) : session[i].prompt = "ai_failed_prompt"
    /\ session[Len(session)] = Called("extract_chapters_to_pdf")

\* C26 as stated: every range the TOC resolver returns lies inside the
\* document, 1 <= start_page <= end_page <= total_pages, also for outlines
\* with entries whose page is greater than total_pages.
C26_TocRangesInDocument ==
    TocCalled =>
        \A i \in 1..Len(ret.value) :
            /\ 1 <= StartOf(ret.value[i])
            /\ StartOf(ret.value[i]) <= EndOf(ret.value[i])
            /\ EndOf(ret.value[i]) <= page_count

\* C27 as stated: an outline with a level-1 entry with page > 0 is resolved to
\* a non-empty list.
C27_TocNonEmptyIfLevel1 ==
    (TocCalled /\ Level1Positions # {}) => ret.value # <<>>

\* C27, amended: the result is empty exactly when the outline has no level-1
\* entry with page > 0, or all its candidates are on one page and that page
\* is greater than total_pages; a candidate inside the document always gives
\* a non-empty list.
C27_TocEmptyIffNoCandidateInside ==
    TocCalled =>
        LET pages == CandidatePages
        IN  /\ ret.value = <<>> <=>
                  \/ Level1Positions = {}
                  \/ Cardinality(pages) = 1 /\ \A p \in pages : p > page_count
            /\ (\E p \in pages : p <= page_count) => ret.value # <<>>

\* the candidates of an outline, more than one entry, are all on one page
\* beyond the last page of a document that has pages: the chapter was skipped
\* and nothing is returned
C27_Witness ==
    /\ TocCalled
    /\ page_count > 0
    /\ Cardinality(CandidatePositions) >= 2
    /\ Cardinality(CandidatePages) = 1
    /\ \A p \in CandidatePages : p > page_count
    /\ ret.value = <<>>
    /\ LoggedWhat("skipping_chapter")

\* C28: after the sort and the duplicate filter the pages of unique_chapters
\* strictly increase, so that the defensive branch of lines 105-108 (end_page
\* = start_page, with a warning) is never taken; a chapter whose successor
\* starts on the following page is returned as a chapter of one page, and no
\* warning is logged unless a chapter was skipped.
C28_TocNoDefensiveBranch ==
    TocCalled =>
        LET unique == unique_chapters(toc)
        IN  /\ \A i \in 1..(Len(unique) - 1) : unique[i].page < unique[i+1].page
            /\ ~LoggedWhat("adjusting_range")
            /\ \A i \in 1..(Len(unique) - 1) :
                  unique[i+1].page = unique[i].page + 1 =>
                      \E j \in 1..Len(ret.value) :
                          /\ TitleOf(ret.value[j]) = unique[i].title
                          /\ StartOf(ret.value[j]) = unique[i].page
                          /\ EndOf(ret.value[j]) = unique[i].page
            /\ LoggedLevel({"WARNING"}) => LoggedWhat("skipping_chapter")

\* an outline with two entries on one page and a chapter on the page after:
\* the duplicate was dropped, the first chapter has one page, and no warning
\* was logged
C28_Witness ==
    /\ TocCalled
    /\ LoggedWhat("duplicate_toc_entry")
    /\ Len(ret.value) >= 2
    /\ StartOf(ret.value[1]) = EndOf(ret.value[1])
    /\ StartOf(ret.value[2]) = StartOf(ret.value[1]) + 1
    /\ ~LoggedLevel({"WARNING"})

====
